---- MODULE Spec2Model ----
(***************************************************************************)
(* CalculadoraAPI: the Express/Prisma backend of routes/usuario.ts,        *)
(* routes/cliente.ts and routes/calculo.ts over the tables of the init     *)
(* migration.  Every await of a handler is one step of the request that    *)
(* runs it, so requests interleave exactly where the event loop lets them. *)
(***************************************************************************)
EXTENDS Integers, Sequences, FiniteSets, TLC

(***************************************************************************)
(* JavaScript numbers: IEEE-754 binary64, round-to-nearest-even.           *)
(* A number is [neg, m, e] and stands for (-1)^neg * m * 2^e, where m is   *)
(* a natural of exactly Precision bits (top bit 1) written in base 8192,   *)
(* least significant limb first, or <<>> for zero.  Inside the arithmetic  *)
(* naturals are little-endian bit sequences without leading zeros.         *)
(***************************************************************************)
Precision == 53

RECURSIVE BitsOfNat(_)
BitsOfNat(n) == IF n = 0 THEN <<>> ELSE <<n % 2>> \o BitsOfNat(n \div 2)

Zeros(k) == [i \in 1..k |-> 0]

Reverse(s) == [i \in 1..Len(s) |-> s[Len(s) + 1 - i]]

Strip(a) ==
    LET ones == {i \in 1..Len(a) : a[i] # 0}
    IN  IF ones = {} THEN <<>>
        ELSE SubSeq(a, 1, CHOOSE i \in ones : \A j \in ones : j <= i)

\* The value of the bits a[1..k] (k <= 13) as an integer.
RECURSIVE LimbValue(_, _)
LimbValue(a, k) ==
    IF k = 0 \/ a = <<>> THEN 0 ELSE Head(a) + 2 * LimbValue(Tail(a), k - 1)

RECURSIVE ToLimbs(_)
ToLimbs(a) ==
    IF a = <<>> THEN <<>>
    ELSE <<LimbValue(a, 13)>>
         \o ToLimbs(IF Len(a) <= 13 THEN <<>> ELSE SubSeq(a, 14, Len(a)))

RECURSIVE LimbBits(_, _)
LimbBits(v, k) == IF k = 0 THEN <<>> ELSE <<v % 2>> \o LimbBits(v \div 2, k - 1)

RECURSIVE FromLimbsRaw(_)
FromLimbsRaw(l) ==
    IF l = <<>> THEN <<>> ELSE LimbBits(Head(l), 13) \o FromLimbsRaw(Tail(l))

FromLimbs(l) == Strip(FromLimbsRaw(l))

\* l * k + c for a limb k
RECURSIVE LMulLimb(_, _, _)
LMulLimb(l, k, c) ==
    IF l = <<>> THEN (IF c = 0 THEN <<>> ELSE <<c>>)
    ELSE LET p == Head(l) * k + c
         IN  <<p % 8192>> \o LMulLimb(Tail(l), k, p \div 8192)

RECURSIVE LAddC(_, _, _)
LAddC(a, b, c) ==
    IF a = <<>> /\ b = <<>> THEN (IF c = 0 THEN <<>> ELSE <<c>>)
    ELSE LET x == IF a = <<>> THEN 0 ELSE Head(a)
             y == IF b = <<>> THEN 0 ELSE Head(b)
             s == x + y + c
         IN  <<s % 8192>> \o LAddC(IF a = <<>> THEN a ELSE Tail(a),
                                   IF b = <<>> THEN b ELSE Tail(b),
                                   s \div 8192)

RECURSIVE LMul(_, _)
LMul(a, b) ==
    IF b = <<>> THEN <<>>
    ELSE LAddC(LMulLimb(a, Head(b), 0), <<0>> \o LMul(a, Tail(b)), 0)

BAdd(a, b) == FromLimbs(LAddC(ToLimbs(a), ToLimbs(b), 0))

\* The nearest binary64 to the natural with bits n (normalised), times 2^e,
\* ties to even: the rounding every JS arithmetic operation ends with.
RoundBits(n, e) ==
    LET L == Len(n)
    IN  IF L = 0 THEN [neg |-> FALSE, m |-> <<>>, e |-> 0]
        ELSE IF L <= Precision
        THEN [neg |-> FALSE, m |-> ToLimbs(Zeros(Precision - L) \o n),
              e |-> e - (Precision - L)]
        ELSE LET cut    == L - Precision
                 keep   == SubSeq(n, cut + 1, L)
                 guard  == n[cut]
                 sticky == \E i \in 1..(cut - 1) : n[i] = 1
                 up     == guard = 1 /\ (sticky \/ keep[1] = 1)
                 r      == IF up THEN BAdd(keep, <<1>>) ELSE keep
             IN  IF Len(r) > Precision
                 THEN [neg |-> FALSE, m |-> ToLimbs(SubSeq(r, 2, Len(r))),
                       e |-> e + cut + 1]
                 ELSE [neg |-> FALSE, m |-> ToLimbs(r), e |-> e + cut]

\* x * y for non-negative numbers
NumMul(x, y) ==
    IF x.m = <<>> \/ y.m = <<>> THEN [neg |-> FALSE, m |-> <<>>, e |-> 0]
    ELSE RoundBits(FromLimbs(LMul(x.m, y.m)), x.e + y.e)

\* x + y for non-negative numbers
NumAdd(x, y) ==
    IF x.m = <<>> THEN y
    ELSE IF y.m = <<>> THEN x
    ELSE LET e == IF x.e < y.e THEN x.e ELSE y.e
         IN  RoundBits(BAdd(Zeros(x.e - e) \o FromLimbs(x.m),
                            Zeros(y.e - e) \o FromLimbs(y.m)), e)

\* The first k base-8192 digits after the point of r/d (r < d < 2^18), least
\* significant first, below them one sticky digit for what is left.
RECURSIVE FracLimbs(_, _, _)
FracLimbs(r, d, k) ==
    IF k = 0 THEN <<IF r = 0 THEN 0 ELSE 1>>
    ELSE FracLimbs((8192 * r) % d, d, k - 1) \o <<(8192 * r) \div d>>

\* The number a JSON or source literal n/d (d a power of ten) parses to.
Dec(n, d) ==
    RoundBits(FromLimbs(FracLimbs(n % d, d, 9) \o ToLimbs(BitsOfNat(n \div d))), -130)

NumNeg(x) == [x EXCEPT !.neg = (x.m # <<>>)]

NumPositive(x) == x.m # <<>> /\ ~x.neg

(***************************************************************************)
(* The database (migration.sql) and the requests in flight.                *)
(***************************************************************************)
VARIABLES
    usuarios,   \* table "usuarios": rows [id, nome, email, senha, role]
    clientes,   \* table "clientes": rows [id, nome, telefone, cpf, email]
    calculos,   \* table "calculos"
    seq,        \* ids handed out so far, per table (ids are never reused)
    agora,      \* the timestamp of the latest insert (createdAt)
    tokens,     \* user ids for which jwt.sign has issued a token
    reqs        \* the requests: slot -> request

vars == <<usuarios, clientes, calculos, seq, agora, tokens, reqs>>

\* How many requests a behaviour issues; all of them may be in flight at once.
MaxRequests == 2

Slots == 1..MaxRequests

Null == [nil |-> TRUE]

\* SQL NULL in the nullable column calculos."usuarioId"
SemUsuario == 0

Idle == [kind |-> "idle", pc |-> "idle"]

\* res.status(status).json({success, message, data})
Res(status, message, data) == [status |-> status, message |-> message, data |-> data]

ErroInterno == Res(500, "Erro interno do servidor", Null)

DadosInvalidos == Res(400, "Dados inválidos", Null)

\* string lengths of the literals the requests carry (zod's .min(n))
Tamanho(s) ==
    CASE s = "A"              -> 1
      [] s = "12345"          -> 5
      [] s = "Ana Souza"      -> 9
      [] s = "Ana S. Lima"    -> 11
      [] s = "Novo Usuario"   -> 12
      [] s = "segredo1"       -> 8
      [] s = "TIup123"        -> 7
      [] s = "UPimoveis123"   -> 12
      [] s = "11999990000"    -> 11
      [] s = "11888880000"    -> 11
      [] s = "11111111111"    -> 11
      [] s = "22222222222"    -> 11
      [] s = "      "         -> 6
      [] s = "   "            -> 3
      [] OTHER                -> 0

\* zod's .email()
EmailValido(s) ==
    s \in {"ana@ex.com", "ana.lima@ex.com", "novo@ex.com",
           "ti@uprealiza.com.br", "gabriel@uprealiza.com"}

\* bcrypt.hash(senha, 10) and bcrypt.compare(senha, hash)
Hash(senha) == [bcrypt |-> senha]

Compare(senha, hash) == hash = Hash(senha)

ById(tabela, id) == {x \in tabela : x.id = id}

ByEmail(email) == {u \in usuarios : u.email = email}

ByCpf(cpf) == {c \in clientes : c.cpf = cpf}

One(S) == CHOOSE x \in S : TRUE

\* prisma.<model>.findUnique: the row, or null
FindUnique(S) == IF S = {} THEN Null ELSE One(S)

Req(s) == reqs[s]

\* the slot's request moves on: its fields change as given
Goto(s, r) == reqs' = [reqs EXCEPT ![s] = r]

Reply(s, res) == Goto(s, [Req(s) EXCEPT !.pc = "done", !.res = res])

\* A request arrives.  Slots are taken in order.
Receive(s, r) ==
    /\ Req(s) = Idle
    /\ \A t \in Slots : t < s => Req(t) # Idle
    /\ Goto(s, r)
    /\ UNCHANGED <<usuarios, clientes, calculos, seq, agora, tokens>>

NewReq(kind, pc, auth, id, body, query) ==
    [kind |-> kind, pc |-> pc, auth |-> auth, usuario |-> Null, id |-> id,
     body |-> body, query |-> query, loc |-> Null, res |-> Null]

\* req.headers.authorization: absent, a string jwt.verify rejects (garbage, bad
\* signature, expired), or a token this server signed for userId
SemHeader == [tipo |-> "none"]

TokenRuim == [tipo |-> "invalid"]

Bearer(userId) == [tipo |-> "jwt", userId |-> userId]

(***************************************************************************)
(* routes/usuario.ts: authMiddleware and adminMiddleware                   *)
(***************************************************************************)
Protegida(kind) ==
    kind \in {"POST /api/calculos", "GET /api/calculos", "GET /api/calculos/:id",
              "DELETE /api/calculos/:id", "GET /api/usuarios/perfil",
              "GET /api/usuarios", "POST /api/usuarios", "PUT /api/usuarios/:id",
              "DELETE /api/usuarios/:id"}

SoAdmin(kind) ==
    kind \in {"GET /api/usuarios", "POST /api/usuarios", "PUT /api/usuarios/:id",
              "DELETE /api/usuarios/:id"}

\* select: {id, nome, email, role}
SelectUsuario(u) == [id |-> u.id, nome |-> u.nome, email |-> u.email, role |-> u.role]

TokenRequerido == Res(401, "Token de acesso requerido", Null)

TokenInvalido == Res(401, "Token inválido", Null)

\* a gate that tells a token of a deleted user from a bad token
AuthDecideRevela(header, tabela) ==
    IF header.tipo = "none" THEN [ok |-> FALSE, res |-> TokenRequerido]
    ELSE IF header.tipo # "jwt" THEN [ok |-> FALSE, res |-> TokenInvalido]
    ELSE LET usuario == FindUnique(ById(tabela, header.userId))
         IN  IF usuario = Null
             THEN [ok |-> FALSE, res |-> Res(401, "Usuário não encontrado", Null)]
             ELSE [ok |-> TRUE, usuario |-> SelectUsuario(usuario)]

\* What authMiddleware answers (a response), or the user it resolves.
AuthDecide(header, tabela) ==
    IF header.tipo = "none" THEN [ok |-> FALSE, res |-> TokenRequerido]
    ELSE IF header.tipo # "jwt" THEN [ok |-> FALSE, res |-> TokenInvalido]
    ELSE LET usuario == FindUnique(ById(tabela, header.userId))
         IN  IF usuario = Null THEN [ok |-> FALSE, res |-> TokenInvalido]
             ELSE [ok |-> TRUE, usuario |-> SelectUsuario(usuario)]

AuthMiddleware(s) ==
    /\ Req(s).pc = "auth"
    /\ LET a == AuthDecide(Req(s).auth, usuarios)
       IN  IF a.ok
           THEN Goto(s, [Req(s) EXCEPT
                           !.usuario = a.usuario,
                           !.pc = IF SoAdmin(Req(s).kind) THEN "admin" ELSE "handler"])
           ELSE Reply(s, a.res)
    /\ UNCHANGED <<usuarios, clientes, calculos, seq, agora, tokens>>

AcessoNegado ==
    Res(403, "Acesso negado. Apenas administradores podem acessar esta rota.", Null)

\* a check on the role the gate put on the request, without a query
AdminDecideSemConsulta(reqUsuario, tabela) == reqUsuario.role = "admin"

AdminDecide(reqUsuario, tabela) ==
    LET usuario == FindUnique(ById(tabela, reqUsuario.id))
    IN  usuario # Null /\ usuario.role = "admin"

AdminMiddleware(s) ==
    /\ Req(s).pc = "admin"
    /\ IF AdminDecide(Req(s).usuario, usuarios)
       THEN Goto(s, [Req(s) EXCEPT !.pc = "handler"])
       ELSE Reply(s, AcessoNegado)
    /\ UNCHANGED <<usuarios, clientes, calculos, seq, agora, tokens>>

(***************************************************************************)
(* routes/calculo.ts                                                       *)
(***************************************************************************)
\* clienteSchema, and the cliente object of criarCalculoSchema
ClienteSchemaOk(c) ==
    /\ Tamanho(c.nome) >= 2
    /\ Tamanho(c.telefone) >= 10
    /\ Tamanho(c.cpf) >= 11
    /\ EmailValido(c.email)

\* taxaPoupanca: z.number().optional().default(0.005)
TaxaPadrao == Dec(5, 1000)

\* criarCalculoSchema.parse(req.body): the parsed object holds the schema's
\* keys only (zod strips the others), taxaPoupanca defaulted.
CriarCalculoSchema(body) ==
    IF /\ NumPositive(body.valorLocacao)
       /\ NumPositive(body.valorTaxas)
       /\ ClienteSchemaOk(body.cliente)
    THEN [ok |-> TRUE,
          dados |-> [valorLocacao |-> body.valorLocacao,
                     valorTaxas   |-> body.valorTaxas,
                     cliente      |-> body.cliente,
                     taxaPoupanca |-> IF body.taxaPoupanca = Null THEN TaxaPadrao
                                      ELSE body.taxaPoupanca]]
    ELSE [ok |-> FALSE]

\* the discount taken as the factor: a quarter of the original value is kept
CalcularValoresUmQuarto(dados) ==
    LET valorInicial     == NumAdd(dados.valorLocacao, dados.valorTaxas)
        valorOriginal    == NumMul(valorInicial, Dec(4, 1))
        valorComDesconto == NumMul(valorOriginal, Dec(25, 100))
        valorCorrigido   == NumMul(valorComDesconto, NumAdd(Dec(1, 1), dados.taxaPoupanca))
    IN  [valorInicial     |-> valorInicial,
         valorOriginal    |-> valorOriginal,
         valorComDesconto |-> valorComDesconto,
         valorCorrigido   |-> valorCorrigido]

\* "Calcular valores"
CalcularValores(dados) ==
    LET valorInicial     == NumAdd(dados.valorLocacao, dados.valorTaxas)
        valorOriginal    == NumMul(valorInicial, Dec(4, 1))
        valorComDesconto == NumMul(valorOriginal, Dec(75, 100))
        valorCorrigido   == NumMul(valorComDesconto, NumAdd(Dec(1, 1), dados.taxaPoupanca))
    IN  [valorInicial     |-> valorInicial,
         valorOriginal    |-> valorOriginal,
         valorComDesconto |-> valorComDesconto,
         valorCorrigido   |-> valorCorrigido]

(* What POST /api/calculos is sent. *)
Ana == [nome |-> "Ana Souza", telefone |-> "11999990000", cpf |-> "11111111111",
        email |-> "ana@ex.com"]

CorpoCalculo(valorLocacao, valorTaxas, taxaPoupanca, cliente) ==
    [valorLocacao |-> valorLocacao, valorTaxas |-> valorTaxas,
     taxaPoupanca |-> taxaPoupanca, cliente |-> cliente, valorCorrigido |-> Null]

\* the spec's example: 1000 and 200, with the default rate
CorpoBase == CorpoCalculo(Dec(1000, 1), Dec(200, 1), Null, Ana)

\* bodies that differ in the client they name
CorposClientes ==
    {[CorpoBase EXCEPT !.cliente = c] :
        c \in {Ana,
               [Ana EXCEPT !.nome = "Ana S. Lima", !.telefone = "11888880000",
                           !.email = "ana.lima@ex.com"],
               [Ana EXCEPT !.cpf = "22222222222"]}}

\* bodies that differ in their numbers; the last two are refused (a value that
\* is not positive) and carry a derived field of the caller's own
CorposNumeros ==
    {CorpoBase,
     CorpoCalculo(Dec(1000, 1), Dec(200, 1), Dec(5, 1000), Ana),
     CorpoCalculo(Dec(1, 10), Dec(2, 10), Dec(0, 1), Ana),
     CorpoCalculo(Dec(150050, 100), Dec(9999, 100), Dec(1, 100), Ana),
     CorpoCalculo(Dec(1234567, 1000), Dec(7, 10000), Dec(125, 1000), Ana),
     [CorpoBase EXCEPT !.valorCorrigido = Dec(1, 1)],
     CorpoCalculo(Dec(0, 1), Dec(200, 1), Null, Ana),
     CorpoCalculo(Dec(1000, 1), NumNeg(Dec(200, 1)), Null, Ana)}

\* the numbers of a parsed body
Numeros(dados) ==
    [valorLocacao |-> dados.valorLocacao, valorTaxas |-> dados.valorTaxas,
     taxaPoupanca |-> dados.taxaPoupanca]

\* CalcularValores on the numbers the requests carry, computed once
Valores ==
    [n \in {Numeros(CriarCalculoSchema(b).dados) :
               b \in {c \in CorposClientes \cup CorposNumeros : CriarCalculoSchema(c).ok}}
       |-> CalcularValores(n)]

\* include: {cliente: true}
ComCliente(k, tabela) == [calculo |-> k, cliente |-> FindUnique(ById(tabela, k.clienteId))]

\* POST /api/calculos: parse, then findUnique by cpf
CalculoCreateFind(s) ==
    /\ Req(s).kind = "POST /api/calculos" /\ Req(s).pc = "handler"
    /\ LET p == CriarCalculoSchema(Req(s).body)
       IN  IF ~p.ok THEN Reply(s, DadosInvalidos)
           ELSE Goto(s, [Req(s) EXCEPT
                           !.pc = "upsert",
                           !.loc = [dados   |-> p.dados,
                                    cliente |-> FindUnique(ByCpf(p.dados.cliente.cpf))]])
    /\ UNCHANGED <<usuarios, clientes, calculos, seq, agora, tokens>>

\* an update done as delete-and-insert: the row comes back under a new id
ClienteRecriado(c, data) ==
    [id |-> c.id + 100, nome |-> data.nome, telefone |-> data.telefone,
     cpf |-> data.cpf, email |-> data.email]

\* the row prisma.cliente.update({where: {cpf}, data}) leaves
ClienteAtualizado(c, data) ==
    [c EXCEPT !.nome = data.nome, !.telefone = data.telefone,
              !.cpf = data.cpf, !.email = data.email]

\* POST /api/calculos: cliente.create or cliente.update, then the values.
\* create throws on the unique index clientes_cpf_key, update when no row has
\* the cpf any more; the handler's catch answers 500.
CalculoCreateUpsert(s) ==
    /\ Req(s).kind = "POST /api/calculos" /\ Req(s).pc = "upsert"
    /\ LET data  == Req(s).loc.dados.cliente
           found == ByCpf(data.cpf)
       IN  IF Req(s).loc.cliente = Null
           THEN IF found # {}
                THEN /\ Reply(s, ErroInterno)
                     /\ UNCHANGED <<clientes, seq>>
                ELSE LET novo == [id |-> seq.cliente + 1, nome |-> data.nome,
                                  telefone |-> data.telefone, cpf |-> data.cpf,
                                  email |-> data.email]
                     IN  /\ clientes' = clientes \cup {novo}
                         /\ seq' = [seq EXCEPT !.cliente = @ + 1]
                         /\ Goto(s, [Req(s) EXCEPT
                                       !.pc = "insert",
                                       !.loc = [dados   |-> Req(s).loc.dados,
                                                cliente |-> novo,
                                                valores |-> Valores[Numeros(Req(s).loc.dados)]]])
           ELSE IF found = {}
                THEN /\ Reply(s, ErroInterno)
                     /\ UNCHANGED <<clientes, seq>>
                ELSE LET atual == ClienteAtualizado(One(found), data)
                     IN  /\ clientes' = (clientes \ found) \cup {atual}
                         /\ seq' = seq
                         /\ Goto(s, [Req(s) EXCEPT
                                       !.pc = "insert",
                                       !.loc = [dados   |-> Req(s).loc.dados,
                                                cliente |-> atual,
                                                valores |-> Valores[Numeros(Req(s).loc.dados)]]])
    /\ UNCHANGED <<usuarios, calculos, agora, tokens>>

\* the row calculo.create stores
NovoCalculo(id, dados, valores, clienteId, usuarioId, createdAt) ==
    [id               |-> id,
     valorLocacao     |-> dados.valorLocacao,
     valorTaxas       |-> dados.valorTaxas,
     valorInicial     |-> valores.valorInicial,
     valorOriginal    |-> valores.valorOriginal,
     valorComDesconto |-> valores.valorComDesconto,
     valorCorrigido   |-> valores.valorCorrigido,
     taxaPoupanca     |-> dados.taxaPoupanca,
     clienteId        |-> clienteId,
     usuarioId        |-> usuarioId,
     createdAt        |-> createdAt]

\* POST /api/calculos: calculo.create.  Both foreign keys are checked by the
\* database; a violation throws and the catch answers 500.  createdAt is the
\* insert's timestamp, which two inserts may share.
CalculoCreateInsert(s) ==
    /\ Req(s).kind = "POST /api/calculos" /\ Req(s).pc = "insert"
    /\ IF \/ ById(clientes, Req(s).loc.cliente.id) = {}
          \/ ById(usuarios, Req(s).usuario.id) = {}
       THEN /\ Reply(s, ErroInterno)
            /\ UNCHANGED <<calculos, seq, agora>>
       ELSE \E t \in {agora, agora + 1} :
              LET k == NovoCalculo(seq.calculo + 1, Req(s).loc.dados, Req(s).loc.valores,
                                   Req(s).loc.cliente.id, Req(s).usuario.id, t)
              IN  /\ calculos' = calculos \cup {k}
                  /\ seq' = [seq EXCEPT !.calculo = @ + 1]
                  /\ agora' = t
                  /\ Reply(s, Res(201, "Cálculo criado com sucesso!", ComCliente(k, clientes)))
    /\ UNCHANGED <<usuarios, clientes, tokens>>

\* a where clause in which a clienteId filter replaces the owner restriction
ListWhereFiltroVence(reqUsuario, clienteId) ==
    [clienteId |-> clienteId,
     usuarioId |-> IF reqUsuario.role # "admin" /\ clienteId = <<>>
                   THEN <<reqUsuario.id>> ELSE <<>>]

\* GET /api/calculos: the where clause
ListWhere(reqUsuario, clienteId) ==
    [clienteId |-> clienteId,
     usuarioId |-> IF reqUsuario.role # "admin" THEN <<reqUsuario.id>> ELSE <<>>]

Matches(k, where) ==
    /\ where.clienteId = <<>> \/ k.clienteId = where.clienteId[1]
    /\ where.usuarioId = <<>> \/ k.usuarioId = where.usuarioId[1]

\* orderBy: {createdAt: 'desc'}: every order of the rows the database may
\* return, rows of one createdAt in any order
Ordenacoes(S) ==
    {f \in [1..Cardinality(S) -> S] :
        /\ \A i, j \in 1..Cardinality(S) : i # j => f[i] # f[j]
        /\ \A i, j \in 1..Cardinality(S) : i < j => f[i].createdAt >= f[j].createdAt}

\* Number(page), Number(limit) with the defaults 1 and 50
NumberOr(q, padrao) == IF q = <<>> THEN padrao ELSE q[1]

\* skip: (page - 1) * limit, take: limit
SkipTake(ord, page, limit) ==
    LET skip == (page - 1) * limit
        ate  == IF skip + limit < Len(ord) THEN skip + limit ELSE Len(ord)
    IN  SubSeq(ord, skip + 1, ate)

\* Math.ceil(total / limit)
Ceil(total, limit) == (total + limit - 1) \div limit

\* GET /api/calculos: findMany
CalculoListFindMany(s) ==
    /\ Req(s).kind = "GET /api/calculos" /\ Req(s).pc = "handler"
    /\ LET where == ListWhere(Req(s).usuario, Req(s).query.clienteId)
           page  == NumberOr(Req(s).query.page, 1)
           limit == NumberOr(Req(s).query.limit, 50)
       IN  \E ord \in Ordenacoes({k \in calculos : Matches(k, where)}) :
              Goto(s, [Req(s) EXCEPT
                         !.pc = "count",
                         !.loc = [where |-> where,
                                  rows  |-> [i \in DOMAIN SkipTake(ord, page, limit) |->
                                               ComCliente(SkipTake(ord, page, limit)[i],
                                                          clientes)]]])
    /\ UNCHANGED <<usuarios, clientes, calculos, seq, agora, tokens>>

\* GET /api/calculos: count, then the answer
CalculoListCount(s) ==
    /\ Req(s).kind = "GET /api/calculos" /\ Req(s).pc = "count"
    /\ LET page  == NumberOr(Req(s).query.page, 1)
           limit == NumberOr(Req(s).query.limit, 50)
           total == Cardinality({k \in calculos : Matches(k, Req(s).loc.where)})
       IN  Reply(s, Res(200, "", [rows |-> Req(s).loc.rows,
                                  pagination |-> [page |-> page, limit |-> limit,
                                                  total |-> total,
                                                  pages |-> Ceil(total, limit)]]))
    /\ UNCHANGED <<usuarios, clientes, calculos, seq, agora, tokens>>

CalculoNaoEncontrado == Res(404, "Cálculo não encontrado", Null)

\* GET /api/calculos/:id: findUnique({where: {id}, include: {cliente: true}})
CalculoGet(s) ==
    /\ Req(s).kind = "GET /api/calculos/:id" /\ Req(s).pc = "handler"
    /\ IF ById(calculos, Req(s).id) = {} THEN Reply(s, CalculoNaoEncontrado)
       ELSE Reply(s, Res(200, "", ComCliente(One(ById(calculos, Req(s).id)), clientes)))
    /\ UNCHANGED <<usuarios, clientes, calculos, seq, agora, tokens>>

\* DELETE /api/calculos/:id: findUnique({where: {id}})
CalculoDeleteFind(s) ==
    /\ Req(s).kind = "DELETE /api/calculos/:id" /\ Req(s).pc = "handler"
    /\ IF ById(calculos, Req(s).id) = {} THEN Reply(s, CalculoNaoEncontrado)
       ELSE Goto(s, [Req(s) EXCEPT !.pc = "delete"])
    /\ UNCHANGED <<usuarios, clientes, calculos, seq, agora, tokens>>

\* a delete that takes the client's other calculations along
CalculoDeleteDoCliente(tabela, id) ==
    {k \in tabela : \A d \in ById(tabela, id) : k.clienteId # d.clienteId}

\* the table calculo.delete({where: {id}}) leaves
CalculoDelete(tabela, id) == {k \in tabela : k.id # id}

\* DELETE /api/calculos/:id: calculo.delete, which throws when the row is gone
CalculoDeleteDelete(s) ==
    /\ Req(s).kind = "DELETE /api/calculos/:id" /\ Req(s).pc = "delete"
    /\ IF ById(calculos, Req(s).id) = {}
       THEN /\ Reply(s, ErroInterno)
            /\ calculos' = calculos
       ELSE /\ calculos' = CalculoDelete(calculos, Req(s).id)
            /\ Reply(s, Res(200, "Cálculo deletado com sucesso!", Null))
    /\ UNCHANGED <<usuarios, clientes, seq, agora, tokens>>

(***************************************************************************)
(* routes/cliente.ts (mounted without authMiddleware)                      *)
(***************************************************************************)
ClienteNaoEncontrado == Res(404, "Cliente não encontrado", Null)

ClienteComCalculos == Res(400, "Não é possível deletar cliente que possui cálculos", Null)

\* _count: {select: {calculos: true}}
CountCalculos(clienteId) == Cardinality({k \in calculos : k.clienteId = clienteId})

\* GET /api/clientes/:id
ClienteGet(s) ==
    /\ Req(s).kind = "GET /api/clientes/:id" /\ Req(s).pc = "handler"
    /\ LET cliente == FindUnique(ById(clientes, Req(s).id))
       IN  IF cliente = Null THEN Reply(s, ClienteNaoEncontrado)
           ELSE Reply(s, Res(200, "", cliente))
    /\ UNCHANGED <<usuarios, clientes, calculos, seq, agora, tokens>>

CpfJaExiste == Res(400, "Cliente com este CPF já existe", Null)

\* POST /api/clientes: parse, then findUnique by cpf
ClienteCreateFind(s) ==
    /\ Req(s).kind = "POST /api/clientes" /\ Req(s).pc = "handler"
    /\ IF ~ClienteSchemaOk(Req(s).body) THEN Reply(s, DadosInvalidos)
       ELSE IF ByCpf(Req(s).body.cpf) # {} THEN Reply(s, CpfJaExiste)
       ELSE Goto(s, [Req(s) EXCEPT !.pc = "create"])
    /\ UNCHANGED <<usuarios, clientes, calculos, seq, agora, tokens>>

\* POST /api/clientes: cliente.create, which throws on clientes_cpf_key
ClienteCreateCreate(s) ==
    /\ Req(s).kind = "POST /api/clientes" /\ Req(s).pc = "create"
    /\ IF ByCpf(Req(s).body.cpf) # {}
       THEN /\ Reply(s, ErroInterno)
            /\ UNCHANGED <<clientes, seq>>
       ELSE LET novo == [id |-> seq.cliente + 1, nome |-> Req(s).body.nome,
                         telefone |-> Req(s).body.telefone, cpf |-> Req(s).body.cpf,
                         email |-> Req(s).body.email]
            IN  /\ clientes' = clientes \cup {novo}
                /\ seq' = [seq EXCEPT !.cliente = @ + 1]
                /\ Reply(s, Res(201, "Cliente criado com sucesso!", novo))
    /\ UNCHANGED <<usuarios, calculos, agora, tokens>>

\* a guard that lets a client with a single calculation through
ClienteDeleteGuardMaisDeUm(count) == count > 1

\* whether the handler refuses the delete, given the _count it read
ClienteDeleteGuard(count) == count > 0

\* DELETE /api/clientes/:id: findUnique with _count, and the two early returns
ClienteDeleteFind(s) ==
    /\ Req(s).kind = "DELETE /api/clientes/:id" /\ Req(s).pc = "handler"
    /\ LET cliente == FindUnique(ById(clientes, Req(s).id))
       IN  IF cliente = Null THEN Reply(s, ClienteNaoEncontrado)
           ELSE IF ClienteDeleteGuard(CountCalculos(Req(s).id))
           THEN Reply(s, ClienteComCalculos)
           ELSE Goto(s, [Req(s) EXCEPT !.pc = "delete"])
    /\ UNCHANGED <<usuarios, clientes, calculos, seq, agora, tokens>>

\* DELETE /api/clientes/:id: cliente.delete.  It throws when the row is gone;
\* calculos_clienteId_fkey is ON DELETE CASCADE.
ClienteDeleteDelete(s) ==
    /\ Req(s).kind = "DELETE /api/clientes/:id" /\ Req(s).pc = "delete"
    /\ IF ById(clientes, Req(s).id) = {}
       THEN /\ Reply(s, ErroInterno)
            /\ UNCHANGED <<clientes, calculos>>
       ELSE /\ clientes' = clientes \ ById(clientes, Req(s).id)
            /\ calculos' = {k \in calculos : k.clienteId # Req(s).id}
            /\ Reply(s, Res(200, "Cliente deletado com sucesso!", Null))
    /\ UNCHANGED <<usuarios, seq, agora, tokens>>

(***************************************************************************)
(* routes/usuario.ts                                                       *)
(***************************************************************************)
\* usuarioSchema
UsuarioSchemaOk(body) ==
    /\ Tamanho(body.nome) >= 2
    /\ EmailValido(body.email)
    /\ Tamanho(body.senha) >= 6

\* the column default of usuarios.role, which create() leaves to the database
RolePadrao == "user"

EmailEmUso == Res(400, "Email já está sendo usado", Null)

\* a token signed without the user's id among its claims
SignSemId(usuario) == Bearer(SemUsuario)

\* jwt.sign({userId, email}, JWT_KEY, {expiresIn: '7d'})
Sign(usuario) == Bearer(usuario.id)

\* POST /api/usuarios/registro: parse, then findUnique by email
RegistroFind(s) ==
    /\ Req(s).kind = "POST /api/usuarios/registro" /\ Req(s).pc = "handler"
    /\ IF ~UsuarioSchemaOk(Req(s).body) THEN Reply(s, DadosInvalidos)
       ELSE IF ByEmail(Req(s).body.email) # {} THEN Reply(s, EmailEmUso)
       ELSE Goto(s, [Req(s) EXCEPT !.pc = "create"])
    /\ UNCHANGED <<usuarios, clientes, calculos, seq, agora, tokens>>

NovoUsuario(id, body, role) ==
    [id |-> id, nome |-> body.nome, email |-> body.email,
     senha |-> Hash(body.senha), role |-> role]

\* POST /api/usuarios/registro: bcrypt.hash, usuario.create (which throws on the
\* unique index usuarios_email_key), jwt.sign
RegistroCreate(s) ==
    /\ Req(s).kind = "POST /api/usuarios/registro" /\ Req(s).pc = "create"
    /\ IF ByEmail(Req(s).body.email) # {}
       THEN /\ Reply(s, ErroInterno)
            /\ UNCHANGED <<usuarios, seq, tokens>>
       ELSE LET usuario == NovoUsuario(seq.usuario + 1, Req(s).body, RolePadrao)
            IN  /\ usuarios' = usuarios \cup {usuario}
                /\ seq' = [seq EXCEPT !.usuario = @ + 1]
                /\ tokens' = tokens \cup {usuario.id}
                /\ Reply(s, Res(201, "Usuário criado com sucesso!",
                                [usuario |-> SelectUsuario(usuario),
                                 token   |-> Sign(usuario)]))
    /\ UNCHANGED <<clientes, calculos, agora>>

LoginInvalido == Res(401, "Email ou senha inválidos", Null)

\* loginSchema
LoginSchemaOk(body) == EmailValido(body.email) /\ Tamanho(body.senha) >= 1

\* POST /api/usuarios/login: parse, then findUnique by email
LoginFind(s) ==
    /\ Req(s).kind = "POST /api/usuarios/login" /\ Req(s).pc = "handler"
    /\ IF ~LoginSchemaOk(Req(s).body) THEN Reply(s, DadosInvalidos)
       ELSE IF ByEmail(Req(s).body.email) = {} THEN Reply(s, LoginInvalido)
       ELSE Goto(s, [Req(s) EXCEPT !.pc = "compare",
                                   !.loc = One(ByEmail(Req(s).body.email))])
    /\ UNCHANGED <<usuarios, clientes, calculos, seq, agora, tokens>>

\* POST /api/usuarios/login: bcrypt.compare, jwt.sign
LoginCompare(s) ==
    /\ Req(s).kind = "POST /api/usuarios/login" /\ Req(s).pc = "compare"
    /\ IF ~Compare(Req(s).body.senha, Req(s).loc.senha)
       THEN /\ Reply(s, LoginInvalido)
            /\ tokens' = tokens
       ELSE /\ tokens' = tokens \cup {Req(s).loc.id}
            /\ Reply(s, Res(200, "Login realizado com sucesso!",
                            [usuario |-> SelectUsuario(Req(s).loc),
                             token   |-> Sign(Req(s).loc)]))
    /\ UNCHANGED <<usuarios, clientes, calculos, seq, agora>>

\* GET /api/usuarios/perfil
Perfil(s) ==
    /\ Req(s).kind = "GET /api/usuarios/perfil" /\ Req(s).pc = "handler"
    /\ Reply(s, Res(200, "", Req(s).usuario))
    /\ UNCHANGED <<usuarios, clientes, calculos, seq, agora, tokens>>

\* usuarioAdminCreateSchema: role is z.enum(['admin', 'user']).default('user')
UsuarioAdminCreateSchema(body) ==
    IF UsuarioSchemaOk(body) /\ (body.role = <<>> \/ body.role[1] \in {"admin", "user"})
    THEN [ok |-> TRUE,
          dados |-> [nome |-> body.nome, email |-> body.email, senha |-> body.senha,
                     role |-> IF body.role = <<>> THEN "user" ELSE body.role[1]]]
    ELSE [ok |-> FALSE]

\* POST /api/usuarios: parse, then findUnique by email
UsuarioCreateFind(s) ==
    /\ Req(s).kind = "POST /api/usuarios" /\ Req(s).pc = "handler"
    /\ LET p == UsuarioAdminCreateSchema(Req(s).body)
       IN  IF ~p.ok THEN Reply(s, DadosInvalidos)
           ELSE IF ByEmail(p.dados.email) # {} THEN Reply(s, EmailEmUso)
           ELSE Goto(s, [Req(s) EXCEPT !.pc = "create", !.loc = p.dados])
    /\ UNCHANGED <<usuarios, clientes, calculos, seq, agora, tokens>>

\* POST /api/usuarios: bcrypt.hash, usuario.create; the answer is the user
UsuarioCreateCreate(s) ==
    /\ Req(s).kind = "POST /api/usuarios" /\ Req(s).pc = "create"
    /\ IF ByEmail(Req(s).loc.email) # {}
       THEN /\ Reply(s, ErroInterno)
            /\ UNCHANGED <<usuarios, seq>>
       ELSE LET usuario == NovoUsuario(seq.usuario + 1, Req(s).loc, Req(s).loc.role)
            IN  /\ usuarios' = usuarios \cup {usuario}
                /\ seq' = [seq EXCEPT !.usuario = @ + 1]
                /\ Reply(s, Res(201, "Usuário criado com sucesso!", SelectUsuario(usuario)))
    /\ UNCHANGED <<clientes, calculos, agora, tokens>>

UsuarioNaoEncontrado == Res(404, "Usuário não encontrado", Null)

ExcluirPropriaConta == Res(400, "Você não pode excluir sua própria conta", Null)

\* the self check applied to plain users only
ExcluiASiMesmoSeNaoAdmin(id, reqUsuario) == reqUsuario.role # "admin" /\ id = reqUsuario.id

\* "Não permitir que admin exclua a si mesmo"
ExcluiASiMesmo(id, reqUsuario) == id = reqUsuario.id

\* DELETE /api/usuarios/:id: findUnique, and the two early returns
UsuarioDeleteFind(s) ==
    /\ Req(s).kind = "DELETE /api/usuarios/:id" /\ Req(s).pc = "handler"
    /\ IF ById(usuarios, Req(s).id) = {} THEN Reply(s, UsuarioNaoEncontrado)
       ELSE IF ExcluiASiMesmo(Req(s).id, Req(s).usuario) THEN Reply(s, ExcluirPropriaConta)
       ELSE Goto(s, [Req(s) EXCEPT !.pc = "delete"])
    /\ UNCHANGED <<usuarios, clientes, calculos, seq, agora, tokens>>

\* a SET NULL that is not restricted to the deleted user's rows
SetNullTodos(k, usuarioId) == [k EXCEPT !.usuarioId = SemUsuario]

\* calculos_usuarioId_fkey: ON DELETE SET NULL
SetNull(k, usuarioId) ==
    IF k.usuarioId = usuarioId THEN [k EXCEPT !.usuarioId = SemUsuario] ELSE k

\* DELETE /api/usuarios/:id: usuario.delete, which throws when the row is gone
UsuarioDeleteDelete(s) ==
    /\ Req(s).kind = "DELETE /api/usuarios/:id" /\ Req(s).pc = "delete"
    /\ IF ById(usuarios, Req(s).id) = {}
       THEN /\ Reply(s, ErroInterno)
            /\ UNCHANGED <<usuarios, calculos>>
       ELSE /\ usuarios' = usuarios \ ById(usuarios, Req(s).id)
            /\ calculos' = {SetNull(k, Req(s).id) : k \in calculos}
            /\ Reply(s, Res(200, "Usuário excluído com sucesso!", Null))
    /\ UNCHANGED <<clientes, seq, agora, tokens>>

\* GET /api/usuarios: findMany with select {id, nome, email, role, createdAt}
UsuarioList(s) ==
    /\ Req(s).kind = "GET /api/usuarios" /\ Req(s).pc = "handler"
    /\ Reply(s, Res(200, "", {SelectUsuario(u) : u \in usuarios}))
    /\ UNCHANGED <<usuarios, clientes, calculos, seq, agora, tokens>>

\* usuarioAdminUpdateSchema: senha is a string of 6 or more characters, '' or
\* absent; role is z.enum(['admin', 'user']).default('user')
UsuarioAdminUpdateSchema(body) ==
    IF /\ Tamanho(body.nome) >= 2
       /\ EmailValido(body.email)
       /\ (body.senha = <<>> \/ Tamanho(body.senha[1]) >= 6 \/ body.senha[1] = "")
       /\ (body.role = <<>> \/ body.role[1] \in {"admin", "user"})
    THEN [ok |-> TRUE,
          dados |-> [nome |-> body.nome, email |-> body.email, senha |-> body.senha,
                     role |-> IF body.role = <<>> THEN "user" ELSE body.role[1]]]
    ELSE [ok |-> FALSE]

\* String.prototype.trim on the passwords the requests carry
Trim(s) == IF s \in {"      ", "   "} THEN "" ELSE s

\* a test that takes any string that is not '' for a password
AtualizaSenhaSemTrim(senha) == senha # <<>> /\ senha[1] # ""

\* if (dados.senha && dados.senha.trim() !== '')
AtualizaSenha(senha) == senha # <<>> /\ senha[1] # "" /\ Trim(senha[1]) # ""

\* PUT /api/usuarios/:id: parse, then findUnique by id
UsuarioUpdateFind(s) ==
    /\ Req(s).kind = "PUT /api/usuarios/:id" /\ Req(s).pc = "handler"
    /\ LET p == UsuarioAdminUpdateSchema(Req(s).body)
       IN  IF ~p.ok THEN Reply(s, DadosInvalidos)
           ELSE IF ById(usuarios, Req(s).id) = {} THEN Reply(s, UsuarioNaoEncontrado)
           ELSE Goto(s, [Req(s) EXCEPT
                           !.pc = IF p.dados.email # One(ById(usuarios, Req(s).id)).email
                                  THEN "email" ELSE "update",
                           !.loc = p.dados])
    /\ UNCHANGED <<usuarios, clientes, calculos, seq, agora, tokens>>

\* PUT /api/usuarios/:id: the email is another one, findUnique by email
UsuarioUpdateEmail(s) ==
    /\ Req(s).kind = "PUT /api/usuarios/:id" /\ Req(s).pc = "email"
    /\ IF ByEmail(Req(s).loc.email) # {} THEN Reply(s, EmailEmUso)
       ELSE Goto(s, [Req(s) EXCEPT !.pc = "update"])
    /\ UNCHANGED <<usuarios, clientes, calculos, seq, agora, tokens>>

\* the row usuario.update({where: {id}, data: dadosAtualizacao}) leaves
UsuarioAtualizado(u, dados) ==
    [u EXCEPT !.nome = dados.nome, !.email = dados.email, !.role = dados.role,
              !.senha = IF AtualizaSenha(dados.senha) THEN Hash(dados.senha[1]) ELSE @]

\* PUT /api/usuarios/:id: bcrypt.hash when a password is set, usuario.update
\* (which throws when the row is gone or the email is on another row)
UsuarioUpdateUpdate(s) ==
    /\ Req(s).kind = "PUT /api/usuarios/:id" /\ Req(s).pc = "update"
    /\ IF \/ ById(usuarios, Req(s).id) = {}
          \/ \E u \in usuarios : u.email = Req(s).loc.email /\ u.id # Req(s).id
       THEN /\ Reply(s, ErroInterno)
            /\ usuarios' = usuarios
       ELSE LET u == One(ById(usuarios, Req(s).id))
                n == UsuarioAtualizado(u, Req(s).loc)
            IN  /\ usuarios' = (usuarios \ {u}) \cup {n}
                /\ Reply(s, Res(200, "Usuário atualizado com sucesso!", SelectUsuario(n)))
    /\ UNCHANGED <<clientes, calculos, seq, agora, tokens>>

(***************************************************************************)
(* The state after deployment: the migration's empty tables and the two    *)
(* users of the seed script.                                               *)
(***************************************************************************)
SeedUsuarios ==
    {[id |-> 1, nome |-> "TI Uprealiza", email |-> "ti@uprealiza.com.br",
      senha |-> Hash("TIup123"), role |-> "admin"],
     [id |-> 2, nome |-> "Gabriel UPimoveis", email |-> "gabriel@uprealiza.com",
      senha |-> Hash("UPimoveis123"), role |-> "user"]}

NoRequests == [s \in Slots |-> Idle]

Init ==
    /\ usuarios = SeedUsuarios
    /\ clientes = {}
    /\ calculos = {}
    /\ seq = [usuario |-> 2, cliente |-> 0, calculo |-> 0]
    /\ agora = 0
    /\ tokens = {}
    /\ reqs = NoRequests

(***************************************************************************)
(* What clients send.                                                      *)
(***************************************************************************)
Headers == {SemHeader, TokenRuim} \cup {Bearer(u) : u \in tokens}

Consultas ==
    {[clienteId |-> c, page |-> pl[1], limit |-> pl[2]] :
        c \in {<<>>, <<1>>},
        pl \in {<< <<>>, <<>> >>, << <<1>>, <<1>> >>, << <<2>>, <<1>> >>}}

ReqsCalculoCreate(corpos) ==
    {NewReq("POST /api/calculos", "auth", Bearer(u), 0, b, Null) :
        u \in tokens, b \in corpos}

ReqsCalculoList ==
    {NewReq("GET /api/calculos", "auth", Bearer(u), 0, Null, q) :
        u \in tokens, q \in Consultas}

\* by id: the ids handed out, and the next one, which no row has
ReqsCalculoGet ==
    {NewReq("GET /api/calculos/:id", "auth", Bearer(u), id, Null, Null) :
        u \in tokens, id \in 1..(seq.calculo + 1)}

ReqsCalculoDelete ==
    {NewReq("DELETE /api/calculos/:id", "auth", Bearer(u), id, Null, Null) :
        u \in tokens, id \in 1..(seq.calculo + 1)}

ReqsClienteDelete ==
    {NewReq("DELETE /api/clientes/:id", "handler", SemHeader, id, Null, Null) :
        id \in 1..seq.cliente}

ReqsClienteCreate ==
    {NewReq("POST /api/clientes", "handler", SemHeader, 0, c, Null) :
        c \in {b.cliente : b \in CorposClientes}}

ReqsClienteGet ==
    {NewReq("GET /api/clientes/:id", "handler", SemHeader, id, Null, Null) :
        id \in 1..seq.cliente}

CorposUsuario ==
    {[nome |-> "Novo Usuario", email |-> e, senha |-> p, role |-> <<>>] :
        e \in {"novo@ex.com", "gabriel@uprealiza.com"}, p \in {"segredo1"}}
    \cup {[nome |-> "Novo Usuario", email |-> "gabriel@uprealiza.com", senha |-> "12345",
           role |-> <<>>]}

ReqsRegistro ==
    {NewReq("POST /api/usuarios/registro", "handler", SemHeader, 0, b, Null) :
        b \in CorposUsuario}

CorposLogin ==
    {[email |-> "ti@uprealiza.com.br", senha |-> "TIup123"],
     [email |-> "gabriel@uprealiza.com", senha |-> "UPimoveis123"],
     [email |-> "gabriel@uprealiza.com", senha |-> "segredo1"],
     [email |-> "novo@ex.com", senha |-> "segredo1"]}

ReqsLogin ==
    {NewReq("POST /api/usuarios/login", "handler", SemHeader, 0, b, Null) :
        b \in CorposLogin}

ReqsPerfil ==
    {NewReq("GET /api/usuarios/perfil", "auth", Bearer(u), 0, Null, Null) : u \in tokens}

ReqsUsuarioCreate ==
    {NewReq("POST /api/usuarios", "auth", Bearer(u), 0, [b EXCEPT !.role = r], Null) :
        u \in tokens, b \in CorposUsuario, r \in {<<>>, <<"admin">>}}

ReqsUsuarioDelete ==
    {NewReq("DELETE /api/usuarios/:id", "auth", h, id, Null, Null) :
        h \in Headers, id \in 1..seq.usuario}

ReqsUsuarioList ==
    {NewReq("GET /api/usuarios", "auth", Bearer(u), 0, Null, Null) : u \in tokens}

\* bodies of PUT /api/usuarios/:id: without a password, with '', with blanks
\* (six, and three), with a new password, and with a new email
CorposUpdate ==
    {[nome |-> "Novo Usuario", email |-> "gabriel@uprealiza.com", senha |-> p,
      role |-> <<>>] : p \in {<<>>, <<"">>, <<"      ">>, <<"   ">>}}
    \cup {[nome |-> "Novo Usuario", email |-> "gabriel@uprealiza.com",
           senha |-> <<"segredo1">>, role |-> <<"admin">>],
          [nome |-> "Novo Usuario", email |-> "novo@ex.com", senha |-> <<>>,
           role |-> <<"admin">>]}

\* bodies that differ in the role: left out, and admin
CorposPapel ==
    {[nome |-> "Novo Usuario", email |-> "novo@ex.com", senha |-> <<>>, role |-> r] :
        r \in {<<>>, <<"admin">>}}

ReqsUsuarioUpdate(corpos) ==
    {NewReq("PUT /api/usuarios/:id", "auth", Bearer(u), id, b, Null) :
        u \in tokens, id \in 1..seq.usuario, b \in corpos}

(***************************************************************************)
(* The whole server, from the deployed state.                              *)
(***************************************************************************)
Handlers(s) ==
    \/ AuthMiddleware(s)
    \/ AdminMiddleware(s)
    \/ CalculoCreateFind(s)
    \/ CalculoCreateUpsert(s)
    \/ CalculoCreateInsert(s)
    \/ CalculoListFindMany(s)
    \/ CalculoListCount(s)
    \/ CalculoGet(s)
    \/ CalculoDeleteFind(s)
    \/ CalculoDeleteDelete(s)
    \/ ClienteGet(s)
    \/ ClienteCreateFind(s)
    \/ ClienteCreateCreate(s)
    \/ ClienteDeleteFind(s)
    \/ ClienteDeleteDelete(s)
    \/ RegistroFind(s)
    \/ RegistroCreate(s)
    \/ LoginFind(s)
    \/ LoginCompare(s)
    \/ Perfil(s)
    \/ UsuarioCreateFind(s)
    \/ UsuarioCreateCreate(s)
    \/ UsuarioDeleteFind(s)
    \/ UsuarioDeleteDelete(s)
    \/ UsuarioList(s)
    \/ UsuarioUpdateFind(s)
    \/ UsuarioUpdateEmail(s)
    \/ UsuarioUpdateUpdate(s)

ReqsAll ==
    ReqsCalculoCreate(CorposClientes \cup CorposNumeros) \cup ReqsCalculoList
    \cup ReqsClienteCreate \cup ReqsClienteDelete \cup ReqsClienteGet \cup ReqsRegistro \cup ReqsLogin
    \cup ReqsPerfil \cup ReqsUsuarioCreate \cup ReqsUsuarioDelete
    \cup ReqsUsuarioList \cup ReqsUsuarioUpdate(CorposUpdate)
    \cup ReqsCalculoGet \cup ReqsCalculoDelete

Next ==
    \E s \in Slots :
        \/ \E r \in ReqsAll : Receive(s, r)
        \/ Handlers(s)

Spec == Init /\ [][Next]_vars

(***************************************************************************)
(* Database states the server reaches, as starting points: each is the     *)
(* deployed state after the logins, registrations and creations named.     *)
(***************************************************************************)
ClienteRow(id, c) ==
    [id |-> id, nome |-> c.nome, telefone |-> c.telefone, cpf |-> c.cpf, email |-> c.email]

\* the row POST /api/calculos stores for a body
CalculoRow(id, corpo, clienteId, usuarioId, t) ==
    NovoCalculo(id, CriarCalculoSchema(corpo).dados,
                Valores[Numeros(CriarCalculoSchema(corpo).dados)], clienteId, usuarioId, t)

Bia == [Ana EXCEPT !.cpf = "22222222222"]

\* a user who registered with CorposUsuario's new email
Registrado ==
    [id |-> 3, nome |-> "Novo Usuario", email |-> "novo@ex.com",
     senha |-> Hash("segredo1"), role |-> "user"]

\* the seeded plain user has logged in
Logado ==
    /\ usuarios = SeedUsuarios
    /\ tokens = {2}
    /\ clientes = {} /\ calculos = {}
    /\ seq = [usuario |-> 2, cliente |-> 0, calculo |-> 0]
    /\ agora = 0

\* ... has stored a calculation for Ana, and Bia was created by POST /api/clientes
ComClientes ==
    /\ usuarios = SeedUsuarios
    /\ tokens = {2}
    /\ clientes = {ClienteRow(1, Ana), ClienteRow(2, Bia)}
    /\ calculos = {CalculoRow(1, CorpoBase, 1, 2, 1)}
    /\ seq = [usuario |-> 2, cliente |-> 2, calculo |-> 1]
    /\ agora = 1

\* a third user has registered; the three users have stored calculations for
\* two clients, two of them within one millisecond; the seeded users hold tokens
TresUsuarios ==
    /\ usuarios = SeedUsuarios \cup {Registrado}
    /\ tokens = {1, 2}
    /\ clientes = {ClienteRow(1, Ana), ClienteRow(2, Bia)}
    /\ calculos = {CalculoRow(1, CorpoBase, 1, 2, 1), CalculoRow(2, CorpoBase, 1, 3, 2),
                   CalculoRow(3, CorpoBase, 2, 1, 2)}
    /\ seq = [usuario |-> 3, cliente |-> 2, calculo |-> 3]
    /\ agora = 2

\* the admin has logged in
AdminLogado ==
    /\ usuarios = SeedUsuarios
    /\ tokens = {1}
    /\ clientes = {} /\ calculos = {}
    /\ seq = [usuario |-> 2, cliente |-> 0, calculo |-> 0]
    /\ agora = 0

\* a third user has registered; the seeded user has stored two calculations,
\* the others one each; the seeded users hold tokens
Autores ==
    /\ usuarios = SeedUsuarios \cup {Registrado}
    /\ tokens = {1, 2}
    /\ clientes = {ClienteRow(1, Ana), ClienteRow(2, Bia)}
    /\ calculos = {CalculoRow(1, CorpoBase, 1, 2, 1), CalculoRow(2, CorpoBase, 2, 2, 2),
                   CalculoRow(3, CorpoBase, 1, 3, 3), CalculoRow(4, CorpoBase, 2, 1, 3)}
    /\ seq = [usuario |-> 3, cliente |-> 2, calculo |-> 4]
    /\ agora = 3

\* slot s takes a step
Steps(s) == reqs'[s] # reqs[s]

(***************************************************************************)
(* Clients: POST /api/calculos (the upsert by cpf) against POST, GET and   *)
(* DELETE /api/clientes.                                                   *)
(***************************************************************************)
InitClientes ==
    /\ Logado \/ ComClientes
    /\ reqs = NoRequests

NextClientes ==
    \E s \in Slots :
        \/ \E r \in ReqsCalculoCreate(CorposClientes) : Receive(s, r)
        \/ \E r \in ReqsClienteCreate : Receive(s, r)
        \/ \E r \in ReqsClienteDelete : Receive(s, r)
        \/ \E r \in ReqsClienteGet : Receive(s, r)
        \/ AuthMiddleware(s)
        \/ CalculoCreateFind(s)
        \/ CalculoCreateUpsert(s)
        \/ CalculoCreateInsert(s)
        \/ ClienteGet(s)
        \/ ClienteCreateFind(s)
        \/ ClienteCreateCreate(s)
        \/ ClienteDeleteFind(s)
        \/ ClienteDeleteDelete(s)

SpecClientes == InitClientes /\ [][NextClientes]_vars

(***************************************************************************)
(* Listing: GET /api/calculos against POST /api/calculos.                  *)
(***************************************************************************)
InitListagem ==
    /\ TresUsuarios
    /\ reqs = NoRequests

NextListagem ==
    \E s \in Slots :
        \/ \E r \in ReqsCalculoCreate({CorpoBase}) : Receive(s, r)
        \/ \E r \in ReqsCalculoList : Receive(s, r)
        \/ AuthMiddleware(s)
        \/ CalculoCreateFind(s)
        \/ CalculoCreateUpsert(s)
        \/ CalculoCreateInsert(s)
        \/ CalculoListFindMany(s)
        \/ CalculoListCount(s)

SpecListagem == InitListagem /\ [][NextListagem]_vars

(***************************************************************************)
(* The numbers: POST /api/calculos alone, over bodies that differ in them.  *)
(***************************************************************************)
InitEngine ==
    /\ Logado
    /\ reqs = NoRequests

NextEngine ==
    \E s \in Slots :
        \/ \E r \in ReqsCalculoCreate(CorposNumeros) : Receive(s, r)
        \/ AuthMiddleware(s)
        \/ CalculoCreateFind(s)
        \/ CalculoCreateUpsert(s)
        \/ CalculoCreateInsert(s)

SpecEngine == InitEngine /\ [][NextEngine]_vars

(***************************************************************************)
(* Accounts: registration, login and the admin's user creation.            *)
(***************************************************************************)
InitContas ==
    \/ Init
    \/ AdminLogado /\ reqs = NoRequests

NextContas ==
    \E s \in Slots :
        \/ \E r \in ReqsRegistro : Receive(s, r)
        \/ \E r \in ReqsLogin : Receive(s, r)
        \/ \E r \in ReqsUsuarioCreate : Receive(s, r)
        \/ AuthMiddleware(s)
        \/ AdminMiddleware(s)
        \/ RegistroFind(s)
        \/ RegistroCreate(s)
        \/ LoginFind(s)
        \/ LoginCompare(s)
        \/ UsuarioCreateFind(s)
        \/ UsuarioCreateCreate(s)

SpecContas == InitContas /\ [][NextContas]_vars

(***************************************************************************)
(* User deletion against the requests of the users being deleted.          *)
(***************************************************************************)
InitExclusao ==
    /\ Autores
    /\ reqs = NoRequests

NextExclusao ==
    \E s \in Slots :
        \/ \E r \in ReqsUsuarioDelete : Receive(s, r)
        \/ \E r \in ReqsPerfil : Receive(s, r)
        \/ \E r \in ReqsCalculoCreate({CorpoBase}) : Receive(s, r)
        \/ AuthMiddleware(s)
        \/ AdminMiddleware(s)
        \/ UsuarioDeleteFind(s)
        \/ UsuarioDeleteDelete(s)
        \/ Perfil(s)
        \/ CalculoCreateFind(s)
        \/ CalculoCreateUpsert(s)
        \/ CalculoCreateInsert(s)

SpecExclusao == InitExclusao /\ [][NextExclusao]_vars

(***************************************************************************)
(* The admin's routes: list, create, update and delete of users, by an     *)
(* admin whose own role may be taken away.                                 *)
(***************************************************************************)
InitAdmin ==
    /\ AdminLogado
    /\ reqs = NoRequests

NextAdmin ==
    \E s \in Slots :
        \/ \E r \in ReqsUsuarioList : Receive(s, r)
        \/ \E r \in ReqsUsuarioCreate : Receive(s, r)
        \/ \E r \in ReqsUsuarioUpdate(CorposPapel) : Receive(s, r)
        \/ \E r \in ReqsUsuarioDelete : Receive(s, r)
        \/ AuthMiddleware(s)
        \/ AdminMiddleware(s)
        \/ UsuarioList(s)
        \/ UsuarioCreateFind(s)
        \/ UsuarioCreateCreate(s)
        \/ UsuarioUpdateFind(s)
        \/ UsuarioUpdateEmail(s)
        \/ UsuarioUpdateUpdate(s)
        \/ UsuarioDeleteFind(s)
        \/ UsuarioDeleteDelete(s)

SpecAdmin == InitAdmin /\ [][NextAdmin]_vars

(***************************************************************************)
(* PUT /api/usuarios/:id alone, over bodies that differ in the password.   *)
(***************************************************************************)
InitUpdate ==
    /\ AdminLogado
    /\ reqs = NoRequests

NextUpdate ==
    \E s \in Slots :
        \/ \E r \in ReqsUsuarioUpdate(CorposUpdate) : Receive(s, r)
        \/ AuthMiddleware(s)
        \/ AdminMiddleware(s)
        \/ UsuarioUpdateFind(s)
        \/ UsuarioUpdateEmail(s)
        \/ UsuarioUpdateUpdate(s)

SpecUpdate == InitUpdate /\ [][NextUpdate]_vars

(***************************************************************************)
(* Calculations by id: GET and DELETE /api/calculos/:id.                   *)
(***************************************************************************)
InitPorId ==
    /\ TresUsuarios
    /\ reqs = NoRequests

NextPorId ==
    \E s \in Slots :
        \/ \E r \in ReqsCalculoGet : Receive(s, r)
        \/ \E r \in ReqsCalculoDelete : Receive(s, r)
        \/ AuthMiddleware(s)
        \/ CalculoGet(s)
        \/ CalculoDeleteFind(s)
        \/ CalculoDeleteDelete(s)

SpecPorId == InitPorId /\ [][NextPorId]_vars

(***************************************************************************)
(* Properties                                                              *)
(***************************************************************************)
\* a finished GET /api/calculos of a user the gate resolved as no admin
ListaDeNaoAdmin(r) ==
    /\ r.kind = "GET /api/calculos" /\ r.pc = "done"
    /\ r.res.status = 200
    /\ r.usuario.role # "admin"

\* C1: whatever clienteId, page and limit a user who is no admin sends,
\* GET /api/calculos answers only calculations whose usuarioId is that user's
\* id, and the total it reports is the number of that user's calculations
\* (those of the requested client, when a clienteId is given) at the count.
C1_ListaSoDoUsuario ==
    /\ [](\A s \in Slots :
            ListaDeNaoAdmin(Req(s)) =>
                \A i \in DOMAIN Req(s).res.data.rows :
                    Req(s).res.data.rows[i].calculo.usuarioId = Req(s).usuario.id)
    /\ [][\A s \in Slots :
            (Req(s).kind = "GET /api/calculos" /\ Req(s).pc = "count" /\ Steps(s)
             /\ Req(s).usuario.role # "admin") =>
                reqs'[s].res.data.pagination.total =
                    Cardinality({k \in calculos :
                        /\ k.usuarioId = Req(s).usuario.id
                        /\ \/ Req(s).query.clienteId = <<>>
                           \/ k.clienteId = Req(s).query.clienteId[1]})]_vars

\* a user who is no admin has listed with a clienteId filter and got a row,
\* while the client has a calculation of somebody else
C1_Witness ==
    \E s \in Slots :
        /\ ListaDeNaoAdmin(Req(s))
        /\ Req(s).query.clienteId # <<>>
        /\ Req(s).res.data.rows # <<>>
        /\ Req(s).res.data.pagination.total >= 1
        /\ \E k \in calculos :
              /\ k.clienteId = Req(s).query.clienteId[1]
              /\ k.usuarioId # Req(s).usuario.id

DeleteCliente(r) == r.kind = "DELETE /api/clientes/:id"

\* C3: DELETE /api/clientes/:id of a stored client with a calculation answers
\* 400 "Não é possível deletar cliente que possui cálculos" and changes neither
\* table; of a stored client without calculations it goes on to the delete,
\* which answers 200 and removes just that client; and from then on
\* GET /api/clientes/:id of that id answers 404.
C3_ClienteDelete ==
    /\ [][\A s \in Slots :
            (DeleteCliente(Req(s)) /\ Steps(s) /\ ById(clientes, Req(s).id) # {}) =>
                IF \E k \in calculos : k.clienteId = Req(s).id
                THEN Req(s).pc = "handler" =>
                        /\ reqs'[s].pc = "done"
                        /\ reqs'[s].res.status = 400
                        /\ reqs'[s].res.message
                             = "Não é possível deletar cliente que possui cálculos"
                        /\ clientes' = clientes /\ calculos' = calculos
                ELSE IF Req(s).pc = "handler"
                     THEN reqs'[s].pc = "delete" /\ clientes' = clientes
                     ELSE /\ reqs'[s].pc = "done"
                          /\ reqs'[s].res.status = 200
                          /\ clientes' = {c \in clientes : c.id # Req(s).id}
                          /\ calculos' = calculos]_vars
    /\ [](\A s \in Slots :
            (DeleteCliente(Req(s)) /\ Req(s).pc = "done" /\ Req(s).res.status = 200) =>
                \A c \in clientes : c.id # Req(s).id)
    /\ [][\A s, t \in Slots :
            (/\ Req(s).kind = "GET /api/clientes/:id" /\ Steps(s)
             /\ DeleteCliente(Req(t)) /\ Req(t).pc = "done" /\ Req(t).res.status = 200
             /\ Req(t).id = Req(s).id) =>
                reqs'[s].res.status = 404]_vars

\* one delete was refused for the client's calculations, another removed a
\* client that had none
C3_Witness ==
    \E s, t \in Slots :
        /\ DeleteCliente(Req(s)) /\ Req(s).pc = "done" /\ Req(s).res.status = 400
        /\ \E k \in calculos : k.clienteId = Req(s).id
        /\ DeleteCliente(Req(t)) /\ Req(t).pc = "done" /\ Req(t).res.status = 200
        /\ ById(clientes, Req(t).id) = {}

\* C4: no step of a DELETE /api/clientes/:id removes a calculation, whatever
\* runs beside it.
C4_DeleteNuncaRemoveCalculo ==
    [][(\E s \in Slots : DeleteCliente(Req(s)) /\ Steps(s)) =>
            \A k \in calculos : k \in calculos']_vars

CreateCalculo(r) == r.kind = "POST /api/calculos"

\* the contact fields of a clientes row
Contato(c) == [nome |-> c.nome, telefone |-> c.telefone, cpf |-> c.cpf, email |-> c.email]

\* the request's upsert has gone through: it holds the row it created or updated
Upserted(r) == CreateCalculo(r) /\ "valores" \in DOMAIN r.loc

\* C6: when POST /api/calculos found a client for the cpf and the stored row
\* already has the contact fields the request carries, its update leaves the
\* clientes table as it was and the request goes on with that very row; and
\* no cpf is ever on two rows.
C6_UpsertIdempotente ==
    /\ [](\A c, d \in clientes : c.cpf = d.cpf => c = d)
    /\ [][\A s \in Slots :
            (/\ CreateCalculo(Req(s)) /\ Req(s).pc = "upsert" /\ Steps(s)
             /\ Req(s).loc.cliente # Null
             /\ \E c \in clientes : Contato(c) = Req(s).loc.dados.cliente) =>
                /\ clientes' = clientes
                /\ Upserted(reqs'[s])
                /\ reqs'[s].loc.cliente \in clientes
                /\ Contato(reqs'[s].loc.cliente) = Req(s).loc.dados.cliente]_vars

\* two requests have upserted the same contact fields, one after the other,
\* and hold the same row
C6_Witness ==
    \E s, t \in Slots :
        /\ s # t /\ Upserted(Req(s)) /\ Upserted(Req(t))
        /\ Req(s).body.cliente = Req(t).body.cliente
        /\ Req(s).loc.cliente = Req(t).loc.cliente
        /\ Req(s).loc.cliente \in clientes

\* C7: a POST /api/calculos that saw no client for its cpf and whose
\* cliente.create then met the unique index (its loc still holds no client)
\* goes on with the stored client and answers 201.
C7_PerdedorUsaExistente ==
    \A s \in Slots :
        (/\ CreateCalculo(Req(s)) /\ Req(s).pc = "done"
         /\ "dados" \in DOMAIN Req(s).loc
         /\ Req(s).loc.cliente = Null) =>
            Req(s).res.status = 201

\* the four formulas on the inputs n, each operation rounded as a double
Formulas(n) ==
    [valorInicial     |-> NumAdd(n.valorLocacao, n.valorTaxas),
     valorOriginal    |-> NumMul(NumAdd(n.valorLocacao, n.valorTaxas), Dec(4, 1)),
     valorComDesconto |-> NumMul(NumMul(NumAdd(n.valorLocacao, n.valorTaxas), Dec(4, 1)),
                                 Dec(75, 100)),
     valorCorrigido   |-> NumMul(NumMul(NumMul(NumAdd(n.valorLocacao, n.valorTaxas),
                                               Dec(4, 1)),
                                        Dec(75, 100)),
                                 NumAdd(Dec(1, 1), n.taxaPoupanca))]

\* the formulas on every positive pair of inputs a request carries, with the
\* rate it carries or 0.005
Formulados ==
    [n \in {[valorLocacao |-> b.valorLocacao, valorTaxas |-> b.valorTaxas,
             taxaPoupanca |-> IF b.taxaPoupanca = Null THEN Dec(5, 1000)
                              ELSE b.taxaPoupanca] :
               b \in {c \in CorposNumeros \cup CorposClientes :
                         NumPositive(c.valorLocacao) /\ NumPositive(c.valorTaxas)}}
       |-> Formulas(n)]

\* the derived fields of a stored row follow from the row's own inputs
Derivados(k) ==
    /\ Numeros(k) \in DOMAIN Formulados
    /\ k.valorInicial = Formulados[Numeros(k)].valorInicial
    /\ k.valorOriginal = Formulados[Numeros(k)].valorOriginal
    /\ k.valorComDesconto = Formulados[Numeros(k)].valorComDesconto
    /\ k.valorCorrigido = Formulados[Numeros(k)].valorCorrigido

\* the spec's example inputs
Mil == Dec(1000, 1)
Duzentos == Dec(200, 1)
CincoMilesimos == Dec(5, 1000)

Exemplo(k) ==
    /\ k.valorLocacao = Mil /\ k.valorTaxas = Duzentos
    /\ k.taxaPoupanca = CincoMilesimos

\* a row answered by a POST /api/calculos holds what the request sent, the
\* rate 0.005 where it sent none
Entradas(r) ==
    (CreateCalculo(r) /\ r.pc = "done" /\ r.res.status = 201) =>
        /\ r.res.data.calculo.valorLocacao = r.body.valorLocacao
        /\ r.res.data.calculo.valorTaxas = r.body.valorTaxas
        /\ r.res.data.calculo.taxaPoupanca
             = IF r.body.taxaPoupanca = Null THEN CincoMilesimos ELSE r.body.taxaPoupanca

MilEDuzentos == Dec(1200, 1)
QuatroMilEOitocentos == Dec(4800, 1)
TresMilESeiscentos == Dec(3600, 1)
TresMilSeiscentosEDezoito == Dec(3618, 1)

\* 3617.9999999999995 = (3618 * 2^41 - 1) * 2^-41, the double below 3618
AbaixoDe3618 == [neg |-> FALSE, m |-> <<8191, 8191, 8191, 6279, 1>>, e |-> -41]

\* C2: every stored calculation has valorInicial = valorLocacao + valorTaxas,
\* valorOriginal = valorInicial * 4, valorComDesconto = valorOriginal * 0.75
\* and valorCorrigido = valorComDesconto * (1 + taxaPoupanca) in double
\* arithmetic, whatever derived field the caller sent, with taxaPoupanca 0.005
\* when the request has none; for 1000, 200 and 0.005 the fields are 1200,
\* 4800, 3600 and 3617.9999999999995.
C2_ValoresDerivados ==
    /\ \A k \in calculos :
        /\ Derivados(k)
        /\ Exemplo(k) =>
            /\ k.valorInicial = MilEDuzentos
            /\ k.valorOriginal = QuatroMilEOitocentos
            /\ k.valorComDesconto = TresMilESeiscentos
            /\ k.valorCorrigido = AbaixoDe3618
    /\ \A s \in Slots : Entradas(Req(s))

\* a calculation is stored for a request that left the rate out and sent a
\* valorCorrigido of its own
C2_Witness ==
    \E s \in Slots :
        /\ CreateCalculo(Req(s)) /\ Req(s).pc = "done" /\ Req(s).res.status = 201
        /\ Req(s).body.taxaPoupanca = Null
        /\ Req(s).body.valorCorrigido # Null
        /\ Req(s).res.data.calculo \in calculos
        /\ Exemplo(Req(s).res.data.calculo)

\* C2 as the spec words it: the same, with valorCorrigido 3618 for 1000, 200
\* and 0.005.
C2_Exemplo3618 ==
    /\ \A k \in calculos :
        /\ Derivados(k)
        /\ Exemplo(k) =>
            /\ k.valorInicial = MilEDuzentos
            /\ k.valorOriginal = QuatroMilEOitocentos
            /\ k.valorComDesconto = TresMilESeiscentos
            /\ k.valorCorrigido = TresMilSeiscentosEDezoito
    /\ \A s \in Slots : Entradas(Req(s))

DeleteUsuario(r) == r.kind = "DELETE /api/usuarios/:id"

\* row k with its creator reference taken out
SemAutor(k) == [k EXCEPT !.usuarioId = SemUsuario]

\* C5: when DELETE /api/usuarios/:id, sent by an admin for another user who is
\* stored, gets to its delete, it answers 200 and removes that user and no
\* other; every calculation that user created is still stored, with usuarioId
\* null and every other field as it was, and the other calculations are
\* untouched.
C5_UsuarioDeleteSetNull ==
    [][\A s \in Slots :
        (/\ DeleteUsuario(Req(s)) /\ Steps(s)
         /\ Req(s).pc \in {"handler", "delete"}
         /\ ById(usuarios, Req(s).id) # {}
         /\ Req(s).id # Req(s).usuario.id) =>
            IF Req(s).pc = "handler"
            THEN reqs'[s].pc = "delete" /\ usuarios' = usuarios /\ calculos' = calculos
            ELSE /\ reqs'[s].pc = "done" /\ reqs'[s].res.status = 200
                 /\ usuarios' = {u \in usuarios : u.id # Req(s).id}
                 /\ Cardinality(calculos') = Cardinality(calculos)
                 /\ \A k \in calculos :
                        IF k.usuarioId = Req(s).id
                        THEN SemAutor(k) \in calculos'
                        ELSE k \in calculos']_vars

\* a user who had stored two calculations was deleted: both are stored without
\* a creator, beside calculations that kept theirs
C5_Witness ==
    \E s \in Slots :
        /\ DeleteUsuario(Req(s)) /\ Req(s).pc = "done" /\ Req(s).res.status = 200
        /\ Req(s).usuario.role = "admin"
        /\ ById(usuarios, Req(s).id) = {}
        /\ Cardinality({k \in calculos : k.usuarioId = SemUsuario}) = 2
        /\ \E k \in calculos : k.usuarioId # SemUsuario

Registro(r) == r.kind = "POST /api/usuarios/registro"

\* C8: POST /api/usuarios/registro with the email of a stored user answers 400
\* (with "Email já está sendo usado" when the body is valid), stores no user
\* and signs no token; its create with an email no stored user has answers
\* 201, adds one user with that email and returns a token signed for the new
\* user's id.  No answer of POST /api/usuarios carries a token, and none of
\* its steps signs one.
C8_RegistroEToken ==
    /\ [][\A s \in Slots :
            (/\ Registro(Req(s)) /\ Req(s).pc = "handler" /\ Steps(s)
             /\ \E u \in usuarios : u.email = Req(s).body.email) =>
                /\ reqs'[s].pc = "done"
                /\ reqs'[s].res.status = 400
                /\ reqs'[s].res.data = Null
                /\ UsuarioSchemaOk(Req(s).body) =>
                        reqs'[s].res.message = "Email já está sendo usado"
                /\ usuarios' = usuarios /\ tokens' = tokens]_vars
    /\ [][\A s \in Slots :
            (/\ Registro(Req(s)) /\ Req(s).pc = "create" /\ Steps(s)
             /\ \A u \in usuarios : u.email # Req(s).body.email) =>
                /\ reqs'[s].pc = "done"
                /\ reqs'[s].res.status = 201
                /\ \E n \in usuarios' :
                        /\ \A u \in usuarios : u.id # n.id
                        /\ usuarios' = usuarios \cup {n}
                        /\ n.email = Req(s).body.email
                        /\ reqs'[s].res.data.usuario.id = n.id
                        /\ reqs'[s].res.data.token = Bearer(n.id)
                        /\ tokens' = tokens \cup {n.id}]_vars
    /\ [](\A s \in Slots :
            (Req(s).kind = "POST /api/usuarios" /\ Req(s).pc = "done") =>
                "token" \notin DOMAIN Req(s).res.data)
    /\ [][\A s \in Slots :
            (Req(s).kind = "POST /api/usuarios" /\ Steps(s)) => tokens' = tokens]_vars

\* one registration was refused for its email, another got its token
C8_Witness ==
    \E s, t \in Slots :
        /\ Registro(Req(s)) /\ Req(s).pc = "done" /\ Req(s).res = EmailEmUso
        /\ Registro(Req(t)) /\ Req(t).pc = "done" /\ Req(t).res.status = 201
        /\ Req(t).res.data.token = Bearer(Req(t).res.data.usuario.id)
        /\ Req(t).res.data.usuario.id \in {u.id : u \in usuarios}

\* C9: a step that removes a user is the delete of a DELETE /api/usuarios/:id
\* whose acting user is another one; that request, when it finds its own
\* user as the target, answers 400 "Você não pode excluir sua própria conta"
\* and leaves the users as they were, admin or not; for another stored user it
\* goes on to the delete, which answers 200 and removes that user.
C9_NaoExcluiASiMesmo ==
    /\ [][\A u \in usuarios :
            ById(usuarios', u.id) = {} =>
                \E s \in Slots :
                    /\ DeleteUsuario(Req(s)) /\ Steps(s)
                    /\ Req(s).id = u.id
                    /\ Req(s).usuario.id # u.id]_vars
    /\ [][\A s \in Slots :
            (/\ DeleteUsuario(Req(s)) /\ Req(s).pc = "handler" /\ Steps(s)
             /\ ById(usuarios, Req(s).id) # {}) =>
                IF Req(s).id = Req(s).usuario.id
                THEN /\ reqs'[s].pc = "done"
                     /\ reqs'[s].res.status = 400
                     /\ reqs'[s].res.message = "Você não pode excluir sua própria conta"
                     /\ usuarios' = usuarios
                ELSE reqs'[s].pc = "delete"]_vars
    /\ [][\A s \in Slots :
            (/\ DeleteUsuario(Req(s)) /\ Req(s).pc = "delete" /\ Steps(s)
             /\ ById(usuarios, Req(s).id) # {}) =>
                /\ reqs'[s].res.status = 200
                /\ ById(usuarios', Req(s).id) = {}]_vars

\* an admin was refused the delete of the admin's own account, which is still
\* stored, and another user was deleted
C9_Witness ==
    \E s, t \in Slots :
        /\ DeleteUsuario(Req(s)) /\ Req(s).pc = "done" /\ Req(s).res = ExcluirPropriaConta
        /\ Req(s).id = Req(s).usuario.id /\ Req(s).usuario.role = "admin"
        /\ ById(usuarios, Req(s).id) # {}
        /\ DeleteUsuario(Req(t)) /\ Req(t).pc = "done" /\ Req(t).res.status = 200
        /\ ById(usuarios, Req(t).id) = {}

\* C10: a request to a protected route leaves the gate for the next
\* middleware or the handler only with a token this server signed, for a user
\* stored at that step, who becomes req.usuario; without a header it ends with
\* 401 "Token de acesso requerido"; with a token jwt.verify rejects, and with
\* a good token of a user who is not stored, it ends with 401 "Token
\* inválido", the same answer in both cases; a request the gate ended takes
\* no further step, and the gate's step changes no table.
C10_PortaoDeAutenticacao ==
    /\ [][\A s \in Slots :
            (Protegida(Req(s).kind) /\ Req(s).pc = "auth" /\ Steps(s)) =>
                /\ UNCHANGED <<usuarios, clientes, calculos, seq, agora, tokens>>
                /\ IF Req(s).auth.tipo = "none"
                   THEN /\ reqs'[s].pc = "done"
                        /\ reqs'[s].res = Res(401, "Token de acesso requerido", Null)
                   ELSE IF \/ Req(s).auth.tipo # "jwt"
                           \/ \A u \in usuarios : u.id # Req(s).auth.userId
                   THEN /\ reqs'[s].pc = "done"
                        /\ reqs'[s].res = Res(401, "Token inválido", Null)
                   ELSE /\ reqs'[s].pc \in {"admin", "handler"}
                        /\ \E u \in usuarios :
                              /\ u.id = Req(s).auth.userId
                              /\ reqs'[s].usuario.id = u.id
                              /\ reqs'[s].usuario.role = u.role]_vars
    /\ [](\A s \in Slots :
            (Protegida(Req(s).kind) /\ Req(s).pc \notin {"auth", "done"}) =>
                /\ Req(s).auth.tipo = "jwt"
                /\ Req(s).usuario # Null
                /\ Req(s).usuario.id = Req(s).auth.userId)
    /\ [][\A s \in Slots : Req(s).pc = "done" => reqs'[s] = Req(s)]_vars

\* the gate ended the request of a user who held a good token and was deleted
C10_Witness ==
    \E s, t \in Slots :
        /\ DeleteUsuario(Req(t)) /\ Req(t).pc = "done" /\ Req(t).res.status = 200
        /\ Protegida(Req(s).kind) /\ Req(s).pc = "done"
        /\ Req(s).auth = Bearer(Req(t).id)
        /\ Req(s).usuario = Null
        /\ Req(s).res = TokenInvalido

\* C11: a request to an admin-only route (list, create, update, delete of
\* users) with a good token of a stored user gets from the gate to the admin
\* check whatever the user's role; the admin check lets it through to the
\* handler exactly when the acting user's row holds role admin at that step,
\* and otherwise ends it with 403, the users unchanged; a request so ended
\* takes no further step.
C11_PapelAtual ==
    /\ [][\A s \in Slots :
            (/\ SoAdmin(Req(s).kind) /\ Req(s).pc = "auth" /\ Steps(s)
             /\ Req(s).auth.tipo = "jwt"
             /\ \E u \in usuarios : u.id = Req(s).auth.userId) =>
                reqs'[s].pc = "admin"]_vars
    /\ [][\A s \in Slots :
            (SoAdmin(Req(s).kind) /\ Req(s).pc = "admin" /\ Steps(s)) =>
                /\ usuarios' = usuarios
                /\ IF \E u \in usuarios : u.id = Req(s).usuario.id /\ u.role = "admin"
                   THEN reqs'[s].pc = "handler"
                   ELSE /\ reqs'[s].pc = "done"
                        /\ reqs'[s].res.status = 403]_vars
    /\ [][\A s \in Slots :
            (SoAdmin(Req(s).kind) /\ Req(s).pc = "done") => reqs'[s] = Req(s)]_vars
    /\ [](\A s \in Slots :
            (SoAdmin(Req(s).kind) /\ Req(s).pc \in {"handler", "email", "create",
                                                     "update", "delete"}) =>
                Req(s).usuario # Null)

\* the seeded admin's role was set to user by a PUT, and a later request with
\* the admin's token, which the gate accepted, was refused by the admin check
C11_Witness ==
    \E s, t \in Slots :
        /\ Req(t).kind = "PUT /api/usuarios/:id" /\ Req(t).pc = "done"
        /\ Req(t).res.status = 200 /\ Req(t).res.data.role = "user"
        /\ \E u \in SeedUsuarios : u.id = Req(t).id /\ u.role = "admin"
        /\ SoAdmin(Req(s).kind) /\ Req(s).pc = "done"
        /\ Req(s).auth = Bearer(Req(t).id)
        /\ Req(s).usuario # Null /\ Req(s).usuario.role = "user"
        /\ Req(s).res = AcessoNegado

DeleteCalculo(r) == r.kind = "DELETE /api/calculos/:id"

\* C12: DELETE /api/calculos/:id for an id no calculation has answers 404 and
\* changes no table; for a stored calculation it goes on to the delete for
\* any user the gate let through, and the delete answers 200, removes that row
\* and no other and leaves the clients as they were.
\* GET /api/calculos/:id answers a stored calculation with its client to any
\* such user, and 404 for an id no calculation has.
C12_PorIdSemDono ==
    /\ [][\A s \in Slots :
            (DeleteCalculo(Req(s)) /\ Req(s).pc = "handler" /\ Steps(s)) =>
                /\ calculos' = calculos /\ clientes' = clientes
                /\ IF \E k \in calculos : k.id = Req(s).id
                   THEN reqs'[s].pc = "delete"
                   ELSE /\ reqs'[s].pc = "done"
                        /\ reqs'[s].res.status = 404]_vars
    /\ [][\A s \in Slots :
            (/\ DeleteCalculo(Req(s)) /\ Req(s).pc = "delete" /\ Steps(s)
             /\ \E k \in calculos : k.id = Req(s).id) =>
                /\ reqs'[s].pc = "done"
                /\ reqs'[s].res.status = 200
                /\ \A k \in calculos : k \in calculos' <=> k.id # Req(s).id
                /\ calculos' \subseteq calculos
                /\ clientes' = clientes]_vars
    /\ [][\A s \in Slots :
            (Req(s).kind = "GET /api/calculos/:id" /\ Req(s).pc = "handler" /\ Steps(s)) =>
                /\ reqs'[s].pc = "done"
                /\ IF \E k \in calculos : k.id = Req(s).id
                   THEN /\ reqs'[s].res.status = 200
                        /\ reqs'[s].res.data.calculo \in calculos
                        /\ reqs'[s].res.data.calculo.id = Req(s).id
                        /\ reqs'[s].res.data.cliente \in clientes
                        /\ reqs'[s].res.data.cliente.id
                             = reqs'[s].res.data.calculo.clienteId
                   ELSE reqs'[s].res.status = 404]_vars

\* a plain user got a calculation another user created, and a plain user
\* deleted it, the client's other calculation still stored
C12_Witness ==
    \E s, t \in Slots :
        /\ Req(t).kind = "GET /api/calculos/:id" /\ Req(t).pc = "done"
        /\ Req(t).res.status = 200
        /\ Req(t).usuario.role = "user"
        /\ Req(t).res.data.calculo.usuarioId # Req(t).usuario.id
        /\ DeleteCalculo(Req(s)) /\ Req(s).pc = "done" /\ Req(s).res.status = 200
        /\ Req(s).usuario.role = "user"
        /\ Req(s).id = Req(t).id
        /\ \A k \in calculos : k.id # Req(s).id
        /\ \E k \in calculos : k.clienteId = Req(t).res.data.calculo.clienteId

\* C13: the rows of every answered GET /api/calculos are in one order:
\* createdAt descending, rows of one createdAt by id ascending.
C13_EmpatePorId ==
    \A s \in Slots :
        (Req(s).kind = "GET /api/calculos" /\ Req(s).pc = "done"
         /\ Req(s).res.status = 200) =>
            \A i, j \in DOMAIN Req(s).res.data.rows :
                i < j =>
                    LET a == Req(s).res.data.rows[i].calculo
                        b == Req(s).res.data.rows[j].calculo
                    IN  \/ a.createdAt > b.createdAt
                        \/ a.createdAt = b.createdAt /\ a.id < b.id

UpdateUsuario(r) == r.kind = "PUT /api/usuarios/:id"

\* passwords made of blanks only
Brancos == {"      ", "   "}

\* the request sets no password: none sent, '', or blanks only
SemSenhaNova(body) ==
    body.senha = <<>> \/ body.senha[1] = "" \/ body.senha[1] \in Brancos

\* the update of request s, on a stored user whose new email no other user
\* has: it answers 200; the row gets the request's nome and email and its
\* role, user when it has none; the digest stays when the request sets no
\* password and else becomes the digest of the one sent; no other row changes
AtualizaCampos(s) ==
    (/\ UpdateUsuario(Req(s)) /\ Req(s).pc = "update" /\ Steps(s)
     /\ \E u \in usuarios : u.id = Req(s).id
     /\ \A u \in usuarios : u.email = Req(s).body.email => u.id = Req(s).id) =>
        /\ reqs'[s].pc = "done" /\ reqs'[s].res.status = 200
        /\ \A u \in usuarios : u.id # Req(s).id => u \in usuarios'
        /\ Cardinality(usuarios') = Cardinality(usuarios)
        /\ \E u \in usuarios, n \in usuarios' :
              /\ u.id = Req(s).id /\ n.id = Req(s).id
              /\ n.nome = Req(s).body.nome
              /\ n.email = Req(s).body.email
              /\ n.role = IF Req(s).body.role = <<>> THEN "user" ELSE Req(s).body.role[1]
              /\ n.senha = IF SemSenhaNova(Req(s).body) THEN u.senha
                           ELSE [bcrypt |-> Req(s).body.senha[1]]

\* C14: PUT /api/usuarios/:id on a stored user goes on to its update when
\* the request has no password, '', or a password of six or more characters,
\* blanks included, and is refused with 400, the users unchanged, when the
\* password is shorter, blanks only included.  The update overwrites nome,
\* email and role (user when left out); it keeps the stored digest when the
\* request has no password, '' or blanks only, and replaces it otherwise.
C14_SenhaSoSeFornecida ==
    /\ [][\A s \in Slots : AtualizaCampos(s)]_vars
    /\ [][\A s \in Slots :
            (/\ UpdateUsuario(Req(s)) /\ Req(s).pc = "handler" /\ Steps(s)
             /\ \E u \in usuarios : u.id = Req(s).id) =>
                IF \/ Req(s).body.senha = <<>>
                   \/ Req(s).body.senha[1] = ""
                   \/ Req(s).body.senha[1] \in {"      ", "segredo1"}
                THEN reqs'[s].pc \in {"email", "update"} /\ usuarios' = usuarios
                ELSE /\ reqs'[s].pc = "done"
                     /\ reqs'[s].res.status = 400
                     /\ usuarios' = usuarios]_vars

\* an update with six blanks for a password went through, the row renamed and
\* its digest the seeded one, and an update with three blanks was refused
C14_Witness ==
    \E s, t \in Slots :
        /\ UpdateUsuario(Req(s)) /\ Req(s).pc = "done" /\ Req(s).res.status = 200
        /\ Req(s).body.senha = <<"      ">>
        /\ \E n \in usuarios, u \in SeedUsuarios :
              /\ n.id = Req(s).id /\ u.id = Req(s).id
              /\ n.nome = Req(s).body.nome /\ n.nome # u.nome
              /\ n.senha = u.senha
        /\ UpdateUsuario(Req(t)) /\ Req(t).pc = "done"
        /\ Req(t).body.senha = <<"   ">>
        /\ Req(t).res = DadosInvalidos

\* C14 as the spec words it: a request without a password, with '' or with
\* blanks only gets to the update, which keeps the digest and overwrites nome,
\* email and role.
C14_BrancosAceitos ==
    /\ [][\A s \in Slots : AtualizaCampos(s)]_vars
    /\ [][\A s \in Slots :
            (/\ UpdateUsuario(Req(s)) /\ Req(s).pc = "handler" /\ Steps(s)
             /\ \E u \in usuarios : u.id = Req(s).id
             /\ SemSenhaNova(Req(s).body)) =>
                reqs'[s].pc \in {"email", "update"}]_vars

====
